---- MODULE Spec2Model ----
(***************************************************************************)
(* Model of scrape_fund (src/scrape_fund.py): the pagination / extraction  *)
(* loop that drives a browser page, extracts one record per list item,     *)
(* de-duplicates by title and stops on completion, a missing or disabled   *)
(* next button, the retry ceiling or the page ceiling.                     *)
(*                                                                         *)
(* Text is a sequence of one-character strings.  Three tokens stand for    *)
(* multi-character pieces of the real text: "P" is the label of the total  *)
(* count in the result message, "FAV" the bookmark marker that the site    *)
(* appends to a title, "NL" a newline, "FUNDER" and "FIELD" the labels of  *)
(* the funding body and of the declared field in the details of an item;   *)
(* ":" is a colon of either width.                                         *)
(***************************************************************************)
EXTENDS Integers, Sequences, FiniteSets, TLC

\* ------------------------------------------------------------------ bounds

\* The page ceiling of the loop (1000 in the source, line 112), scaled down.
max_pages == 3
\* The longest list of items one query of the page returns.
MaxItems == 2
\* The largest number of items the well-behaved source holds.
MaxSourceItems == 5
\* The longest text of one detail of an item.
MaxText == 5

\* ------------------------------------------------------- program constants

max_retries == 3
\* range(10): the polls of the first title after a click.
PollBudget == 10

\* -------------------------------------------------------------------- text

Whitespace == {" ", "NL"}
Digits == {"0", "1", "2", "3", "4", "5", "6", "7", "8", "9"}

DigitValue(c) ==
  CASE c = "0" -> 0 [] c = "1" -> 1 [] c = "2" -> 2 [] c = "3" -> 3
    [] c = "4" -> 4 [] c = "5" -> 5 [] c = "6" -> 6 [] c = "7" -> 7
    [] c = "8" -> 8 [] c = "9" -> 9

\* str.strip(): leading and trailing whitespace removed.
RECURSIVE LStrip(_)
LStrip(s) ==
  IF s # <<>> /\ Head(s) \in Whitespace THEN LStrip(Tail(s)) ELSE s

RECURSIVE RStrip(_)
RStrip(s) ==
  IF s # <<>> /\ s[Len(s)] \in Whitespace
    THEN RStrip(SubSeq(s, 1, Len(s) - 1))
    ELSE s

Strip(s) == RStrip(LStrip(s))

\* re.sub(r'<bookmark>.*$', '', s): "." does not match a newline and "$"
\* matches at the end or before a newline that ends the text, so the marker
\* matches only where no newline follows it before the end; the leftmost
\* such marker and everything after it (but a final newline) is removed.
FavMatchesAt(s, i) ==
  /\ s[i] = "FAV"
  /\ \A j \in (i + 1)..Len(s) : s[j] = "NL" => j = Len(s)

StripBookmark(s) ==
  LET hits == {i \in 1..Len(s) : FavMatchesAt(s, i)}
  IN  IF hits = {} THEN s
      ELSE LET i == CHOOSE k \in hits : \A m \in hits : k <= m
           IN  SubSeq(s, 1, i - 1)
                 \o (IF i < Len(s) /\ s[Len(s)] = "NL" THEN <<"NL">> ELSE <<>>)

\* Lines 167-168: the title text of an item as it is stored and compared.
NormalizeTitle(raw) == Strip(StripBookmark(Strip(raw)))

\* re.search(r'<label>\s*([\d,]+)', text): the label, optional whitespace,
\* then at least one digit or comma; the group is the longest such run.
RECURSIVE SkipSpace(_, _)
SkipSpace(t, j) ==
  IF j <= Len(t) /\ t[j] \in Whitespace THEN SkipSpace(t, j + 1) ELSE j

RECURSIVE RunEnd(_, _)
RunEnd(t, j) ==
  IF j <= Len(t) /\ t[j] \in Digits \cup {","} THEN RunEnd(t, j + 1) ELSE j

TotalMatchesAt(t, i) ==
  /\ t[i] = "P"
  /\ LET j == SkipSpace(t, i + 1)
     IN  j <= Len(t) /\ t[j] \in Digits \cup {","}

\* The matched group of the leftmost match, if any.
TotalGroup(t) ==
  LET hits == {i \in 1..Len(t) : TotalMatchesAt(t, i)}
  IN  IF hits = {} THEN [matched |-> FALSE, group |-> <<>>]
      ELSE LET i == CHOOSE k \in hits : \A m \in hits : k <= m
               j == SkipSpace(t, i + 1)
           IN  [matched |-> TRUE, group |-> SubSeq(t, j, RunEnd(t, j) - 1)]

\* str.replace(',', '')
RECURSIVE RemoveCommas(_)
RemoveCommas(s) ==
  IF s = <<>> THEN <<>>
  ELSE IF Head(s) = "," THEN RemoveCommas(Tail(s))
  ELSE <<Head(s)>> \o RemoveCommas(Tail(s))

RECURSIVE IntOfDigits(_)
IntOfDigits(s) ==
  IF s = <<>> THEN 0
  ELSE 10 * IntOfDigits(SubSeq(s, 1, Len(s) - 1)) + DigitValue(s[Len(s)])

\* int(): the value of a digit string; the empty string raises ValueError.
ParseInt(s) ==
  IF s = <<>> THEN [error |-> TRUE, value |-> 0]
  ELSE [error |-> FALSE, value |-> IntOfDigits(s)]

\* Lines 78-100.  elem: whether the result-message element exists; text: its
\* text.  Without the element the fallback calls page.inner_text() with no
\* selector, which raises inside the try, and the total stays 0.
ParseTotal(elem, text) ==
  IF ~elem THEN [error |-> FALSE, value |-> 0]
  ELSE LET g == TotalGroup(text)
       IN  IF ~g.matched THEN [error |-> FALSE, value |-> 0]
           ELSE ParseInt(RemoveCommas(g.group))

\* 'disabled' in btn_class: a class attribute is a sequence of tokens, and
\* "is-disabled" is the two tokens "is-", "disabled".
ClassContains(cls, tok) == \E i \in 1..Len(cls) : cls[i] = tok

\* Mutant of ButtonDisabled: only the attribute is tested.
DisabledByAttribute(btn) == btn.disabledAttr

\* Lines 230-232.  "is-disabled" contains "disabled", so the second test
\* decides.
ButtonDisabled(btn) ==
  \/ btn.disabledAttr
  \/ \E i \in 1..(Len(btn.cls) - 1) : btn.cls[i] = "is-" /\ btn.cls[i + 1] = "disabled"
  \/ ClassContains(btn.cls, "disabled")

\* query_selector found no button.
NoButton == [present |-> FALSE, disabledAttr |-> FALSE, cls |-> <<>>]

\* Lines 219-224: the first selector that finds a button.
FirstFound(found) ==
  LET hits == {i \in 1..Len(found) : found[i].present}
  IN  IF hits = {} THEN NoButton
      ELSE found[CHOOSE k \in hits : \A m \in hits : k <= m]

\* Lines 199-206: the declared field of an item.

\* '<label>' in text
HasLabel(text, label) == \E i \in 1..Len(text) : text[i] = label

RECURSIVE SkipColons(_, _)
SkipColons(t, j) ==
  IF j <= Len(t) /\ t[j] = ":" THEN SkipColons(t, j + 1) ELSE j

\* re.search(r'<field label>[:]*\s*(.+?)$', text): the group is at least one
\* character, none a newline, and ends where "$" matches: at the end of the
\* text or before a newline that ends it.
FieldGroupEnd(t) ==
  IF t # <<>> /\ t[Len(t)] = "NL" THEN Len(t) - 1 ELSE Len(t)

\* Where the group may start after the label at i: after any prefix of the
\* colons and whitespace that follow the label.
FieldGroupStarts(t, i) ==
  LET last == SkipSpace(t, SkipColons(t, i + 1))
      e == FieldGroupEnd(t)
  IN  {s \in (i + 1)..last : s <= e /\ \A j \in s..e : t[j] # "NL"}

FieldMatchesAt(t, i) == t[i] = "FIELD" /\ FieldGroupStarts(t, i) # {}

\* The group of the leftmost match, if any: the colons and the whitespace
\* are greedy, so the group starts as late as it can.
FieldGroup(t) ==
  LET hits == {i \in 1..Len(t) : FieldMatchesAt(t, i)}
  IN  IF hits = {} THEN [matched |-> FALSE, group |-> <<>>]
      ELSE LET i == CHOOSE k \in hits : \A m \in hits : k <= m
               starts == FieldGroupStarts(t, i)
               s == CHOOSE k \in starts : \A m \in starts : k >= m
           IN  [matched |-> TRUE, group |-> SubSeq(t, s, FieldGroupEnd(t))]

\* The text the site shows for a field that was not declared.
Placeholder == <<"-", "-">>

\* Mutant of BlankPlaceholder: the placeholder is kept.
KeepPlaceholder(field) == field

\* Line 206: field if field != '--' else ''
BlankPlaceholder(field) == IF field = Placeholder THEN <<>> ELSE field

\* A project without the key 'field'.
NoField == [present |-> FALSE, value |-> <<>>]

\* Lines 182, 199, 203: the text of one detail, stripped, names the funding
\* body and the field pattern matches it.
FieldMatched(raw) ==
  HasLabel(Strip(raw), "FUNDER") /\ FieldGroup(Strip(raw)).matched

\* Lines 204-206: the field of the project after one detail.
FieldAfter(field, raw) ==
  IF FieldMatched(raw)
    THEN [present |-> TRUE,
          value |-> BlankPlaceholder(Strip(FieldGroup(Strip(raw)).group))]
    ELSE field

\* Lines 177-206: the field of the project after the details of the item in
\* their order; a later match overwrites an earlier one.
RECURSIVE FieldOf(_)
FieldOf(info) ==
  IF info = <<>> THEN NoField
  ELSE FieldAfter(FieldOf(SubSeq(info, 1, Len(info) - 1)), info[Len(info)])

\* ------------------------------------------------------------------- state

VARIABLES
  pc,               \* the position in scrape_fund
  total_count,      \* line 78
  page_num,         \* line 111
  retry_count,      \* line 113
  seen_titles,      \* line 24
  all_projects,     \* line 23
  items,            \* line 142: the items being extracted
  idx,              \* the position of the for loop of line 161 in items
  old_first_title,  \* line 243
  polls,            \* the polls of line 253 that saw no change
  next_btn,         \* line 219: the next button found, until it is clicked
  result,           \* the value returned
  iters,            \* history: loop iterations started, up to IterCap
                    \*   (counted under SpecCounted only)
  failStreak,       \* history: consecutive iterations whose render failed
  termReason,       \* history: which break or exit ended the loop
  lastAdvance,      \* history: how the last click of the next button went
  changes,          \* history: clicks after which a poll saw the first title
                    \*   change (counted under SpecConfirmed only)
  src               \* the source behind the page, when it is well behaved

pvars == <<pc, total_count, page_num, retry_count, seen_titles, all_projects,
           items, idx, old_first_title, polls, next_btn, result>>
hvars == <<iters, failStreak, termReason, lastAdvance, changes>>
vars == <<pvars, hvars, src>>

\* items and idx are read for the last time by the extraction of a page (and
\* by the report of line 212), old_first_title and polls by the polls that
\* follow one click: each is assigned again before it is next read.  The
\* state forgets them where the code stops reading them.
ForgetItems == items' = <<>> /\ idx' = 1
ForgetProbe == old_first_title' = <<>> /\ polls' = 0

\* The iteration counter stops counting one past the number it is compared to.
IterCap == max_pages + max_retries + 1

NoSource == [mode |-> "any"]

Init ==
  /\ pc = "setup"
  /\ total_count = 0
  /\ page_num = 1
  /\ retry_count = 0
  /\ seen_titles = {}
  /\ all_projects = <<>>
  /\ items = <<>>
  /\ idx = 1
  /\ old_first_title = <<>>
  /\ polls = 0
  /\ next_btn = NoButton
  /\ result = <<>>
  /\ iters = 0
  /\ failStreak = 0
  /\ termReason = "none"
  /\ lastAdvance = "none"
  /\ changes = 0
  /\ src = NoSource

\* ---------------------------------------------------------------- decisions

\* Mutant of RetryAllowed: the comparison off by one.
RetryAllowedInclusive == retry_count <= max_retries

\* Lines 127, 146, 266: whether a failure may be retried.
RetryAllowed == retry_count < max_retries

\* Mutant of LoopContinues: one page past the ceiling.
LoopContinuesPastCeiling == page_num <= max_pages + 1

\* Line 116: the condition of the while loop.
LoopContinues == page_num <= max_pages

\* Mutant of IsDone: the test that the total is known is missing.
IsDoneAnyTotal(count, total) == count >= total

\* Mutant of IsDone: > in place of >=.
IsDoneStrict(count, total) == total > 0 /\ count > total

\* Mutant of IsDone: equality in place of >=.
IsDoneExactly(count, total) == total > 0 /\ count = total

\* Line 214: the completion check.
IsDone(count, total) == total > 0 /\ count >= total

\* Mutant of IsDuplicate: no title counts as seen.
NeverDuplicate(title) == FALSE

\* Line 172: the de-duplication check.
IsDuplicate(title) == title \in seen_titles

\* Mutant of HasTitle: the title is not tested for emptiness.
HasTitleElement(project) == project.hasTitle

\* Line 208: project.get('title') is truthy.
HasTitle(project) == project.hasTitle /\ project.title # <<>>

\* Mutant of Accept: the project is put first.
AcceptFirst(projects, project) ==
  <<[title |-> project.title, field |-> project.field]>> \o projects

\* Mutant of Accept: the project is dropped.
AcceptNone(projects, project) == projects

\* Line 209: all_projects.append(project).
Accept(projects, project) ==
  Append(projects, [title |-> project.title, field |-> project.field])

\* Mutant of ResetRetry: the reset is missing.
KeepRetry(count) == count

\* Line 158: the retry count after a render that found items.
ResetRetry(count) == 0

\* ------------------------------------------------------------------- steps
\* Each step is one stretch of scrape_fund, as a function of what the page
\* answers.  A fault is an exception raised by a call of the page.

NextIter == IF iters < IterCap THEN iters + 1 ELSE iters

\* An exception outside every try block leaves scrape_fund; where: before
\* the loop or in it.
Raise(where) ==
  /\ pc' = "raised"
  /\ termReason' = where
  /\ UNCHANGED <<total_count, page_num, retry_count, seen_titles, all_projects,
                 items, idx, old_first_title, polls, result, iters,
                 failStreak, lastAdvance, changes, next_btn>>

\* Lines 57-114.  elem, text: the result-message element and its text;
\* its: the items of the first query; fault: a call outside the try blocks
\* raises.
SetupStep(elem, text, its, fault) ==
  /\ pc = "setup"
  /\ LET parsed == ParseTotal(elem, text)
     IN  IF fault \/ parsed.error THEN Raise("error_in_setup")
         ELSE /\ total_count' = parsed.value
              /\ IF Len(its) = 0
                   THEN /\ pc' = "returned"
                        /\ result' = <<>>
                        /\ termReason' = "no_data"
                        /\ UNCHANGED <<page_num, retry_count>>
                   ELSE /\ pc' = "loop"
                        /\ page_num' = 1
                        /\ retry_count' = 0
                        /\ UNCHANGED <<result, termReason>>
              /\ UNCHANGED <<seen_titles, all_projects, items, idx,
                             old_first_title, polls, iters, failStreak,
                             lastAdvance, changes, next_btn>>

\* Line 116: the test of the while loop.  counting: whether the history
\* variable iters counts the iteration.
LoopHeadStep(counting) ==
  /\ pc = "loop"
  /\ IF LoopContinues
       THEN /\ pc' = "wait"
            /\ iters' = IF counting THEN NextIter ELSE iters
            /\ UNCHANGED termReason
       ELSE /\ pc' = "done"
            /\ termReason' = "page_budget"
            /\ UNCHANGED iters
  /\ UNCHANGED <<total_count, page_num, retry_count, seen_titles, all_projects,
                 items, idx, old_first_title, polls, result, failStreak,
                 lastAdvance, changes, next_btn, src>>

\* Lines 117-134: the wait for the list; every exception of the wait is
\* caught and handled as a timeout.
WaitStep(ok) ==
  /\ pc = "wait"
  /\ IF ok
       THEN /\ pc' = "query"
            /\ UNCHANGED <<retry_count, failStreak, termReason>>
       ELSE /\ failStreak' = failStreak + 1
            /\ IF RetryAllowed
                 THEN /\ retry_count' = retry_count + 1
                      /\ pc' = "loop"
                      /\ UNCHANGED termReason
                 ELSE /\ pc' = "done"
                      /\ termReason' = "retry_render"
                      /\ UNCHANGED retry_count
  /\ UNCHANGED <<total_count, page_num, seen_titles, all_projects, items, idx,
                 old_first_title, polls, result, iters, lastAdvance, changes, next_btn>>

\* Lines 136-159 but the reload: the wait for the loading mask (every
\* exception caught, no effect), the query of the items, and either the retry,
\* which goes on to reload the page, or the reset of the retry count.  fault:
\* "query" (line 142 raises) or "none".
QueryStep(its, fault) ==
  /\ pc = "query"
  /\ IF fault = "query" THEN Raise("error_in_loop")
     ELSE IF Len(its) = 0
       THEN IF RetryAllowed
              THEN /\ pc' = "reload"
                   /\ retry_count' = retry_count + 1
                   /\ items' = its
                   /\ failStreak' = failStreak + 1
                   /\ UNCHANGED <<total_count, page_num, seen_titles,
                                  all_projects, idx, old_first_title, polls,
                                  result, iters, termReason, lastAdvance,
                                  changes, next_btn>>
              ELSE /\ pc' = "done"
                   /\ items' = its
                   /\ failStreak' = failStreak + 1
                   /\ termReason' = "retry_render"
                   /\ UNCHANGED <<total_count, page_num, retry_count,
                                  seen_titles, all_projects, idx,
                                  old_first_title, polls, result, iters,
                                  lastAdvance, changes, next_btn>>
       ELSE /\ pc' = "extract"
            /\ items' = its
            /\ idx' = 1
            /\ retry_count' = ResetRetry(retry_count)
            /\ failStreak' = 0
            /\ UNCHANGED <<total_count, page_num, seen_titles, all_projects,
                           old_first_title, polls, result, iters, termReason,
                           lastAdvance, changes, next_btn>>

\* Lines 149-152: the reload of the page that follows a query that found no
\* item, and the continue.  fault: page.reload raises.
ReloadStep(fault) ==
  /\ pc = "reload"
  /\ IF fault THEN Raise("error_in_loop")
     ELSE /\ pc' = "loop"
          /\ UNCHANGED <<total_count, page_num, retry_count, seen_titles,
                         all_projects, items, idx, old_first_title, polls,
                         result, iters, failStreak, termReason, lastAdvance,
                         changes, next_btn>>

\* Lines 162-206: the project built from one item: its title and its
\* declared field (amount, institution, pi, year and funder are set the same
\* way as the field and read by nothing in scrape_fund).
ProjectOf(item) ==
  IF item.hasTitle
    THEN [hasTitle |-> TRUE, title |-> NormalizeTitle(item.raw),
          field |-> FieldOf(item.info)]
    ELSE [hasTitle |-> FALSE, title |-> <<>>, field |-> FieldOf(item.info)]

\* Lines 161-210 for the item at idx.  fault: "title" (line 165 or 167
\* raises), "detail" (a call of lines 177-181 raises) or "none".
ExtractStep(fault) ==
  /\ pc = "extract"
  /\ LET item == items[idx]
         project == ProjectOf(item)
         skipped == item.hasTitle /\ IsDuplicate(project.title)
         after == IF idx = Len(items) THEN "check" ELSE "extract"
     IN  IF fault = "title" THEN Raise("error_in_loop")
         ELSE IF skipped
           THEN /\ pc' = after
                /\ idx' = idx + 1
                /\ UNCHANGED <<seen_titles, all_projects>>
                /\ UNCHANGED <<total_count, page_num, retry_count, items,
                               old_first_title, polls, next_btn, result,
                               hvars>>
           ELSE /\ seen_titles' = IF item.hasTitle
                                    THEN seen_titles \cup {project.title}
                                    ELSE seen_titles
                /\ IF fault = "detail"
                     THEN /\ pc' = "raised"
                          /\ termReason' = "error_in_loop"
                          /\ UNCHANGED <<idx, all_projects>>
                     ELSE /\ pc' = after
                          /\ idx' = idx + 1
                          /\ all_projects' = IF HasTitle(project)
                                               THEN Accept(all_projects, project)
                                               ELSE all_projects
                          /\ UNCHANGED termReason
                /\ UNCHANGED <<total_count, page_num, retry_count, items,
                               old_first_title, polls, result, iters,
                               failStreak, lastAdvance, changes, next_btn>>

\* Lines 212-216.
CheckStep ==
  /\ pc = "check"
  /\ IF IsDone(Len(all_projects), total_count)
       THEN pc' = "done" /\ termReason' = "complete"
       ELSE pc' = "find_next" /\ UNCHANGED termReason
  /\ ForgetItems
  /\ lastAdvance' = "none"
  /\ UNCHANGED <<total_count, page_num, retry_count, seen_titles, all_projects,
                 old_first_title, polls, next_btn, result, iters, failStreak,
                 changes>>

\* Lines 218-234.  found: what each of the three selectors finds; fault: a
\* query or get_attribute raises.
FindNextStep(found, fault) ==
  /\ pc = "find_next"
  /\ LET btn == FirstFound(found)
     IN  IF fault THEN Raise("error_in_loop")
         ELSE /\ next_btn' = btn
              /\ IF ~btn.present
                   THEN pc' = "done" /\ termReason' = "no_next"
                   ELSE IF ButtonDisabled(btn)
                     THEN pc' = "done" /\ termReason' = "last_page"
                     ELSE pc' = "click" /\ UNCHANGED termReason
              /\ UNCHANGED <<total_count, page_num, retry_count, seen_titles,
                             all_projects, items, idx, old_first_title, polls,
                             result, iters, failStreak, lastAdvance, changes>>

\* Lines 264-272: the handler of an exception of lines 236-262.
ClickFailed ==
  /\ lastAdvance' = "failed"
  /\ UNCHANGED changes
  /\ IF RetryAllowed
       THEN /\ retry_count' = retry_count + 1
            /\ pc' = "loop"
            /\ UNCHANGED termReason
       ELSE /\ pc' = "done"
            /\ termReason' = "retry_click"
            /\ UNCHANGED retry_count

\* Lines 236-250.  first: the text of the first title of the page, empty
\* without one; fault: "scroll", "first" or "click" (that call raises) or
\* "none".  next_btn is read for the last time by the click.
ClickStep(first, fault) ==
  /\ pc = "click"
  /\ IF fault # "none"
       THEN ClickFailed /\ ForgetProbe /\ UNCHANGED page_num
       ELSE /\ old_first_title' = first
            /\ page_num' = page_num + 1
            /\ polls' = 0
            /\ pc' = "poll"
            /\ UNCHANGED <<retry_count, termReason, lastAdvance, changes>>
  /\ next_btn' = NoButton
  /\ UNCHANGED <<total_count, seen_titles, all_projects, items, idx, result,
                 iters, failStreak>>

\* Line 257: the first title is there and differs from the one before the
\* click.
TitleChanged(new_first_title) ==
  new_first_title # <<>> /\ new_first_title # old_first_title

\* Lines 253-262, one poll.  first: the text of the first title; fault: the
\* query or the read raises; counting: whether the history variable changes
\* counts the change seen.
PollStep(first, fault, counting) ==
  /\ pc = "poll"
  /\ IF fault
       THEN ClickFailed /\ ForgetProbe
       ELSE IF TitleChanged(first)
         THEN /\ pc' = "loop"
              /\ lastAdvance' = IF polls = 0 THEN "changed" ELSE "recovered"
              /\ changes' = IF counting THEN changes + 1 ELSE changes
              /\ ForgetProbe
              /\ UNCHANGED <<retry_count, termReason>>
         ELSE IF polls + 1 = PollBudget
           THEN /\ pc' = "loop"
                /\ lastAdvance' = "stale"
                /\ ForgetProbe
                /\ UNCHANGED <<retry_count, termReason, changes>>
           ELSE /\ pc' = "poll"
                /\ polls' = polls + 1
                /\ UNCHANGED <<old_first_title, lastAdvance, retry_count,
                               termReason, changes>>
  /\ UNCHANGED <<total_count, page_num, seen_titles, all_projects, items, idx,
                 next_btn, result, iters, failStreak>>

\* Lines 274-276.
Return ==
  /\ pc = "done"
  /\ pc' = "returned"
  /\ result' = all_projects
  /\ UNCHANGED <<total_count, page_num, retry_count, seen_titles, all_projects,
                 items, idx, old_first_title, polls, next_btn, hvars, src>>

\* ------------------------------------------------- the page, unconstrained
\* What the calls of the page may answer: any of these, at every call.

\* Title texts as the page renders them: two plain titles, one with
\* surrounding whitespace and the bookmark marker, one that is only the
\* marker and what follows it, and one whose marker is followed by a newline
\* inside the text (the pattern does not match it, and the text is kept).
RawTitles ==
  { <<"a">>,
    <<"b">>,
    <<" ", "a", "FAV", "x", "NL">>,
    <<"FAV", "b">>,
    <<"a", "FAV", "NL", "b">> }

\* The details rendered with a title: none for most, a declared field for
\* the title "b" and the placeholder for the one that spans two lines.
InfoWith(raw) ==
  IF raw = <<"b">> THEN <<<<"FUNDER", ":", "x", " ", "FIELD", ":", "x">>>>
  ELSE IF raw = <<"a", "FAV", "NL", "b">>
    THEN <<<<"FUNDER", ":", "x", " ", "FIELD", ":", " ", "-", "-", "NL">>>>
  ELSE <<>>

ItemKinds ==
  {[hasTitle |-> FALSE, raw |-> <<>>, info |-> <<>>]}
    \cup {[hasTitle |-> TRUE, raw |-> r, info |-> InfoWith(r)] : r \in RawTitles}

ItemLists == UNION {[1..n -> ItemKinds] : n \in 0..MaxItems}

\* Texts of the result message: no label, a label without a number, a label
\* with only a comma, and labels with a number.
SummaryTexts ==
  { <<"x", "1">>,
    <<"P", "x", "2">>,
    <<"P", " ", ",">>,
    <<"P", "0">>,
    <<"P", "1">>,
    <<"x", "P", " ", "2", "x", "3">>,
    <<"P", "1", ",", "0", "0", "0">> }

Buttons ==
  { [present |-> TRUE, disabledAttr |-> FALSE, cls |-> <<"btn-next">>],
    [present |-> TRUE, disabledAttr |-> FALSE, cls |-> <<>>],
    [present |-> TRUE, disabledAttr |-> TRUE, cls |-> <<"btn-next">>],
    [present |-> TRUE, disabledAttr |-> FALSE, cls |-> <<"btn-next", "is-", "disabled">>],
    [present |-> TRUE, disabledAttr |-> FALSE, cls |-> <<"disabled">>] }

\* What the three selectors of lines 219-224 find: nothing, or a button by
\* the first, the second or the third only.
Lookups ==
  {<<NoButton, NoButton, NoButton>>}
    \cup {<<b, NoButton, NoButton>> : b \in Buttons}
    \cup {<<NoButton, b, NoButton>> : b \in Buttons}
    \cup {<<NoButton, NoButton, b>> : b \in Buttons}
    \cup {<<b, c, NoButton>> : b, c \in Buttons}

\* The text of the first title of the page, empty without one.
FirstTitles == {<<>>, <<"a">>, <<"b">>}

Setup ==
  /\ pc = "setup"
  /\ \E elem \in BOOLEAN, text \in SummaryTexts, its \in ItemLists, fault \in BOOLEAN :
       SetupStep(elem, text, its, fault)
  /\ UNCHANGED src

WaitForList ==
  /\ pc = "wait"
  /\ \E ok \in BOOLEAN : WaitStep(ok)
  /\ UNCHANGED src

QueryItems ==
  /\ pc = "query"
  /\ \E its \in ItemLists, fault \in {"none", "query"} : QueryStep(its, fault)
  /\ UNCHANGED src

Reload ==
  /\ pc = "reload"
  /\ \E fault \in BOOLEAN : ReloadStep(fault)
  /\ UNCHANGED src

ExtractItem ==
  /\ pc = "extract"
  /\ \E fault \in {"none", "title", "detail"} : ExtractStep(fault)
  /\ UNCHANGED src

CheckCompletion == CheckStep /\ UNCHANGED src

FindNext ==
  /\ pc = "find_next"
  /\ \E found \in Lookups, fault \in BOOLEAN : FindNextStep(found, fault)
  /\ UNCHANGED src

ClickNext ==
  /\ pc = "click"
  /\ \E first \in FirstTitles, fault \in {"none", "scroll", "first", "click"} :
       ClickStep(first, fault)
  /\ UNCHANGED src

PollTitle ==
  /\ pc = "poll"
  /\ \E first \in FirstTitles, fault \in BOOLEAN : PollStep(first, fault, FALSE)
  /\ UNCHANGED src

LoopHead == LoopHeadStep(FALSE)

Next ==
  \/ Setup
  \/ LoopHead
  \/ WaitForList
  \/ QueryItems
  \/ Reload
  \/ ExtractItem
  \/ CheckCompletion
  \/ FindNext
  \/ ClickNext
  \/ PollTitle
  \/ Return

Spec == Init /\ [][Next]_vars

\* The same program and page, with the loop iterations counted.
CountedLoopHead == LoopHeadStep(TRUE)

NextCounted ==
  \/ Setup
  \/ CountedLoopHead
  \/ WaitForList
  \/ QueryItems
  \/ Reload
  \/ ExtractItem
  \/ CheckCompletion
  \/ FindNext
  \/ ClickNext
  \/ PollTitle
  \/ Return

SpecCounted == Init /\ [][NextCounted]_vars

\* The same program and page, with the confirmed page changes counted.
CountedPollTitle ==
  /\ pc = "poll"
  /\ \E first \in FirstTitles, fault \in BOOLEAN : PollStep(first, fault, TRUE)
  /\ UNCHANGED src

NextConfirmed ==
  \/ Setup
  \/ LoopHead
  \/ WaitForList
  \/ QueryItems
  \/ Reload
  \/ ExtractItem
  \/ CheckCompletion
  \/ FindNext
  \/ ClickNext
  \/ CountedPollTitle
  \/ Return

SpecConfirmed == Init /\ [][NextConfirmed]_vars

\* ------------------------------------------------- the page, well behaved
\* A source of src.n items with distinct titles, src.size to a page, whose
\* list always renders and whose next button always works: the page shows
\* page src.cur of the source, and after a click the polls still see the page
\* before it src.lag times.

DigitChars == <<"1", "2", "3", "4", "5", "6", "7", "8", "9">>

\* The title of the k-th item as rendered, with the bookmark marker.
SourceTitle(k) == <<"t", DigitChars[k], "FAV", " ">>

\* The details of the k-th item: every second item declares no field.
SourceInfo(k) ==
  << <<"FUNDER", ":", "x", " ", "FIELD", ":", " ">>
       \o (IF k % 2 = 0 THEN Placeholder ELSE <<DigitChars[k]>>) >>

SourceItem(k) ==
  [hasTitle |-> TRUE, raw |-> SourceTitle(k), info |-> SourceInfo(k)]

SourceRecord(k) ==
  [title |-> <<"t", DigitChars[k]>>,
   field |-> [present |-> TRUE,
              value |-> IF k % 2 = 0 THEN <<>> ELSE <<DigitChars[k]>>]]

NumPages(n, size) == (n + size - 1) \div size

\* The items of page p, none past the last page.
PageItems(n, size, p) ==
  LET first == (p - 1) * size
      count == IF first >= n THEN 0
               ELSE IF n - first < size THEN n - first ELSE size
  IN  [i \in 1..count |-> SourceItem(first + i)]

\* The page the browser shows.
ShownPage == IF src.lag > 0 THEN src.cur - 1 ELSE src.cur

ShownItems == PageItems(src.n, src.size, ShownPage)

ShownFirstTitle == IF ShownItems = <<>> THEN <<>> ELSE ShownItems[1].raw

\* The next button of the page shown: disabled on the last page.
ShownButton ==
  [present |-> TRUE,
   disabledAttr |-> ShownPage >= NumPages(src.n, src.size),
   cls |-> <<"btn-next">>]

Sources ==
  [mode : {"normal"}, n : 1..MaxSourceItems, size : 1..MaxItems, cur : {1},
   lag : {0}]

InitNormal ==
  /\ pc = "setup"
  /\ total_count = 0
  /\ page_num = 1
  /\ retry_count = 0
  /\ seen_titles = {}
  /\ all_projects = <<>>
  /\ items = <<>>
  /\ idx = 1
  /\ old_first_title = <<>>
  /\ polls = 0
  /\ next_btn = NoButton
  /\ result = <<>>
  /\ iters = 0
  /\ failStreak = 0
  /\ termReason = "none"
  /\ lastAdvance = "none"
  /\ changes = 0
  /\ src \in Sources

NormalSetup ==
  /\ SetupStep(TRUE, <<"P", " ", DigitChars[src.n]>>, ShownItems, FALSE)
  /\ UNCHANGED src

NormalWait == WaitStep(TRUE) /\ UNCHANGED src

NormalQuery == QueryStep(ShownItems, "none") /\ UNCHANGED src

NormalExtract == ExtractStep("none") /\ UNCHANGED src

NormalFindNext ==
  /\ FindNextStep(<<ShownButton, NoButton, NoButton>>, FALSE)
  /\ UNCHANGED src

NormalClick ==
  /\ pc = "click"
  /\ ClickStep(ShownFirstTitle, "none")
  /\ \E lag \in 0..(PollBudget - 1) :
       src' = [src EXCEPT !.cur = src.cur + 1, !.lag = lag]

NormalPoll ==
  /\ PollStep(ShownFirstTitle, FALSE, FALSE)
  /\ src' = [src EXCEPT !.lag = IF src.lag > 0 THEN src.lag - 1 ELSE 0]

NextNormal ==
  \/ NormalSetup
  \/ LoopHead
  \/ NormalWait
  \/ NormalQuery
  \/ NormalExtract
  \/ CheckCompletion
  \/ NormalFindNext
  \/ NormalClick
  \/ NormalPoll
  \/ Return

SpecNormal == InitNormal /\ [][NextNormal]_vars

\* ------------------------------------------ the page, its button failing
\* A page whose list renders items at every query and whose next button is
\* found enabled, but the scroll to the button or the click raises at every
\* attempt.

RenderedLists == ItemLists \ {<<>>}

EnabledButtons == {b \in Buttons : ~ButtonDisabled(b)}

RenderingSetup ==
  /\ pc = "setup"
  /\ \E elem \in BOOLEAN, text \in SummaryTexts, its \in RenderedLists :
       SetupStep(elem, text, its, FALSE)
  /\ UNCHANGED src

RenderingQuery ==
  /\ pc = "query"
  /\ \E its \in RenderedLists : QueryStep(its, "none")
  /\ UNCHANGED src

EnabledFindNext ==
  /\ pc = "find_next"
  /\ \E b \in EnabledButtons : FindNextStep(<<b, NoButton, NoButton>>, FALSE)
  /\ UNCHANGED src

FailingClick ==
  /\ pc = "click"
  /\ \E fault \in {"scroll", "click"} : ClickStep(<<>>, fault)
  /\ UNCHANGED src

NextClickFails ==
  \/ RenderingSetup
  \/ LoopHead
  \/ NormalWait
  \/ RenderingQuery
  \/ NormalExtract
  \/ CheckCompletion
  \/ EnabledFindNext
  \/ FailingClick
  \/ Return

Positions ==
  {"setup", "loop", "wait", "query", "reload", "extract", "check",
   "find_next", "click", "poll", "done", "returned", "raised"}

\* scrape_fund has neither returned nor raised.
Running == pc \notin {"returned", "raised"}

\* A step of the running program: each one moves pc or idx.
Turn ==
  /\ Running
  /\ pc' \in Positions
  /\ idx' \in 1..(MaxItems + 1)

\* scrape_fund is sequential code and the calls of the page return or raise
\* within their timeouts: while it runs, it takes its next step.
SpecClickFails ==
  Init /\ [][NextClickFails]_vars /\ WF_<<pc, idx>>(Turn)

\* --------------------------------------------------- the details of an item
\* The extraction of a page of one item whose details are any texts.

InfoChars == {"FUNDER", "FIELD", ":", " ", "NL", "-", "x"}

InfoTexts == UNION {[1..n -> InfoChars] : n \in 0..MaxText}

\* Texts for an item with two details: a placeholder, a declared field, a
\* text the pattern does not match and one that does not name the funder.
PairTexts ==
  { <<"FUNDER", "FIELD", ":", " ", "-", "-">>,
    <<"FUNDER", "FIELD", "x">>,
    <<"FUNDER", "x">>,
    <<"FIELD", "-", "-">> }

Infos ==
  {<<>>} \cup {<<t>> : t \in InfoTexts}
         \cup {<<t, u>> : t, u \in PairTexts}

\* The first page has rendered one item and its extraction begins.
InitField ==
  /\ pc = "extract"
  /\ total_count = 0
  /\ page_num = 1
  /\ retry_count = 0
  /\ seen_titles = {}
  /\ all_projects = <<>>
  /\ \E info \in Infos :
       items = <<[hasTitle |-> TRUE, raw |-> <<"a", "FAV">>, info |-> info]>>
  /\ idx = 1
  /\ old_first_title = <<>>
  /\ polls = 0
  /\ next_btn = NoButton
  /\ result = <<>>
  /\ iters = 0
  /\ failStreak = 0
  /\ termReason = "none"
  /\ lastAdvance = "none"
  /\ changes = 0
  /\ src = NoSource

NextField ==
  \/ NormalExtract
  \/ CheckCompletion

SpecField == InitField /\ [][NextField]_vars

\* ------------------------------------------------------------------ claims

LoopEnded == pc \in {"done", "returned"}

\* C1: all_projects never holds two records with the same title, whatever
\* the page renders, and the extraction of an item whose title is already in
\* seen_titles leaves all_projects unchanged.
C1_NoDuplicateTitles ==
  /\ [](\A i, j \in 1..Len(all_projects) :
          all_projects[i].title = all_projects[j].title => i = j)
  /\ [][(/\ pc = "extract"
         /\ items[idx].hasTitle
         /\ NormalizeTitle(items[idx].raw) \in seen_titles)
          => all_projects' = all_projects]_vars

\* C1, witness: a page with two items whose texts differ and whose titles
\* are equal has been extracted, and one record holds that title.
C1_Witness ==
  /\ pc = "check"
  /\ \E i, j \in 1..Len(items) :
       /\ i < j
       /\ items[i].hasTitle /\ items[j].hasTitle
       /\ items[i].raw # items[j].raw
       /\ NormalizeTitle(items[i].raw) = NormalizeTitle(items[j].raw)
       /\ Cardinality({k \in 1..Len(all_projects) :
                         all_projects[k].title = NormalizeTitle(items[i].raw)}) = 1

\* C2: the loop has ended by the time max_pages + max_retries iterations
\* have been started: no more iterations than that are ever started.
C2_BoundedIterations == iters <= max_pages + max_retries

\* C3: no failure of a call of the page inside the loop leaves scrape_fund
\* as an exception: the run ends by returning.
C3_LoopNeverRaises == ~(pc = "raised" /\ termReason = "error_in_loop")

\* C4: the completion check ends the loop exactly when total_count is
\* positive and len(all_projects) >= total_count; with total_count 0 it
\* never ends the loop.
C4_CompletionExact ==
  /\ termReason = "complete"
       => total_count > 0 /\ Len(all_projects) >= total_count
  /\ pc = "find_next"
       => ~(total_count > 0 /\ Len(all_projects) >= total_count)
  /\ total_count = 0 => termReason # "complete"

\* C4, witness: the loop ended by completion on the second page.
C4_Witness ==
  /\ termReason = "complete"
  /\ page_num = 2
  /\ total_count = 2
  /\ Len(all_projects) = 2

\* C5: the length of all_projects never decreases, and at the completion
\* check it exceeds a positive total_count by no more than the number of
\* items of the page just extracted.
C5_Monotone ==
  /\ [][Len(all_projects') >= Len(all_projects)]_vars
  /\ [](pc = "check" /\ total_count > 0
          => Len(all_projects) - total_count <= Len(items))

\* C5, witness: a completion check with more records than the total.
C5_Witness ==
  /\ pc = "check"
  /\ total_count = 1
  /\ Len(all_projects) = 2
  /\ Len(items) = 2

\* C6, as claimed: once max_retries consecutive render attempts have failed
\* the loop has ended as failed.
C6_EndsAfterThreeFailures ==
  failStreak >= max_retries => LoopEnded /\ termReason = "retry_render"

\* C6, amended: consecutive failed render attempts number at most
\* max_retries + 1; the loop ends by retry exhaustion at a failed attempt
\* made with retry_count = max_retries, which is the fourth consecutive
\* failure, or the third when a failed click came before; the failed
\* attempts leave all_projects unchanged and the records collected before
\* them are returned.  Before the loop, a first query that finds no item
\* returns the empty list at once.
C6_EndsAfterRetriesExhausted ==
  /\ [](failStreak <= max_retries + 1)
  /\ [](failStreak = max_retries + 1 => LoopEnded /\ termReason = "retry_render")
  /\ [](termReason = "retry_render"
          => /\ retry_count = max_retries
             /\ failStreak >= max_retries
             /\ failStreak = max_retries => lastAdvance = "failed")
  /\ [](pc = "returned" /\ termReason = "retry_render" => result = all_projects)
  /\ [](termReason = "no_data" => pc = "returned" /\ result = <<>>)
  /\ [][failStreak' > failStreak => all_projects' = all_projects]_vars

\* C6, witness: the run returned the records of an earlier page after four
\* consecutive failed render attempts.
C6_Witness ==
  /\ pc = "returned"
  /\ termReason = "retry_render"
  /\ failStreak = max_retries + 1
  /\ page_num = 2
  /\ Len(result) >= 1

\* A step in which a render or a click failed.
FailureStep ==
  \/ failStreak' = failStreak + 1
  \/ pc \in {"click", "poll"} /\ lastAdvance' = "failed"

\* C7: retry_count stays between 0 and max_retries, and a failure met with
\* retry_count = max_retries ends the loop and does not increment it.
C7_RetryWithinCeiling ==
  /\ [](retry_count \in 0..max_retries)
  /\ [][FailureStep /\ retry_count = max_retries
          => pc' = "done" /\ retry_count' = retry_count]_vars

\* C7, witness: a failed click and then failed renders brought retry_count
\* to the ceiling, and the next failure ended the loop.
C7_Witness ==
  /\ pc = "done"
  /\ termReason = "retry_render"
  /\ retry_count = max_retries
  /\ lastAdvance = "failed"

\* C8: the render wait, the extraction and the click are performed with
\* 1 <= page_num <= max_pages; once page_num has passed max_pages the loop
\* ends and the records collected are returned.
C8_PageWithinCeiling ==
  /\ page_num \in 1..(max_pages + 1)
  /\ pc \in {"wait", "query", "extract", "check", "find_next", "click"}
       => page_num <= max_pages
  /\ termReason = "page_budget" => page_num = max_pages + 1
  /\ pc = "returned" /\ termReason = "page_budget" => result = all_projects

\* C8, witness: the run returned its records after the page ceiling ended it.
C8_Witness ==
  /\ pc = "returned"
  /\ termReason = "page_budget"
  /\ Len(result) >= 1

\* C10: while the first title is polled after a click retry_count is at most
\* 1; a poll that sees the title change after polls that did not ends the
\* polling without touching retry_count or page_num, and the items of the
\* page rendered next are extracted with retry_count = 0.
C10_StaleClickRecovered ==
  /\ [](pc = "poll" => retry_count <= 1)
  /\ [](pc \in {"extract", "check"} => retry_count = 0)
  /\ [](lastAdvance = "recovered" => page_num >= 2)
  /\ [][pc = "poll" /\ lastAdvance' = "recovered"
          => /\ polls \in 1..(PollBudget - 1)
             /\ pc' = "loop"
             /\ retry_count' = retry_count
             /\ page_num' = page_num]_vars

\* C10, witness: the second page is being extracted after a click whose
\* change showed only after polls that saw none.
C10_Witness ==
  /\ pc = "extract"
  /\ lastAdvance = "recovered"
  /\ page_num = 2
  /\ retry_count = 0
  /\ Len(all_projects) >= 1

\* The first k records of the source, in its order.
SourcePrefix(k) == [i \in 1..k |-> SourceRecord(i)]

SourceFits == NumPages(src.n, src.size) <= max_pages

\* C9, as claimed: with a well-behaved source of N items and a reported
\* total of N the loop stops by completion and exactly N records are
\* returned.
C9_ReturnsAllRecords ==
  pc = "returned" => termReason = "complete" /\ Len(result) = src.n

\* C9, amended: the same, for a source whose pages number at most max_pages:
\* each page is extracted once, in order, the loop advances while fewer than
\* N records are collected, stops by completion on the last page and returns
\* the N records in the order of the source.  A source of more pages ends the
\* loop at the page ceiling, with the records of the first max_pages pages.
C9_NormalPagination ==
  /\ total_count \in {0, src.n}
  /\ retry_count = 0
  /\ pc = "extract"
       => /\ items = PageItems(src.n, src.size, page_num)
          /\ all_projects = SourcePrefix((page_num - 1) * src.size + idx - 1)
  /\ pc \in {"find_next", "click"}
       => /\ Len(all_projects) < src.n
          /\ all_projects = SourcePrefix(page_num * src.size)
  /\ SourceFits /\ pc \in {"done", "returned"}
       => /\ termReason = "complete"
          /\ page_num = NumPages(src.n, src.size)
          /\ all_projects = SourcePrefix(src.n)
  /\ SourceFits /\ pc = "returned" => result = SourcePrefix(src.n)
  /\ ~SourceFits /\ pc = "returned"
       => /\ termReason = "page_budget"
          /\ result = SourcePrefix(max_pages * src.size)

\* C9, witness: five items, two to a page, returned after three pages.
C9_Witness ==
  /\ pc = "returned"
  /\ src.n = 5 /\ src.size = 2
  /\ page_num = 3
  /\ termReason = "complete"
  /\ Len(result) = 5

\* C11: every record of all_projects has a non-empty title: the extraction
\* of an item without a title element, or whose title is empty once the
\* bookmark suffix is stripped, leaves all_projects unchanged.
C11_TitlesNonEmpty ==
  /\ [](\A i \in 1..Len(all_projects) : all_projects[i].title # <<>>)
  /\ [][(/\ pc = "extract"
         /\ \/ ~items[idx].hasTitle
            \/ NormalizeTitle(items[idx].raw) = <<>>)
          => all_projects' = all_projects]_vars

\* C11, witness: a page with an item without a title element and an item
\* whose title is only the bookmark suffix has been extracted: the empty
\* title is marked seen and no record was appended.
C11_Witness ==
  /\ pc = "check"
  /\ Len(items) = 2
  /\ ~items[1].hasTitle
  /\ items[2].hasTitle /\ items[2].raw # <<>>
  /\ NormalizeTitle(items[2].raw) = <<>>
  /\ <<>> \in seen_titles
  /\ all_projects = <<>>

\* C12: the field of a collected record is never the placeholder: the field
\* is absent when the pattern matched none of the details of the item, and
\* otherwise it is present and holds what the last match captured, stripped,
\* or the empty string when that is the placeholder.
C12_FieldNeverPlaceholder ==
  /\ \A i \in 1..Len(all_projects) : all_projects[i].field.value # Placeholder
  /\ pc = "check" /\ Len(items) = 1 /\ Len(all_projects) = 1
       => LET info == items[1].info
              field == all_projects[1].field
              hits == {k \in 1..Len(info) : FieldMatched(info[k])}
          IN  IF hits = {} THEN ~field.present
              ELSE LET k == CHOOSE h \in hits : \A m \in hits : h >= m
                       captured == Strip(FieldGroup(Strip(info[k])).group)
                   IN  /\ field.present
                       /\ captured = Placeholder => field.value = <<>>
                       /\ captured # Placeholder => field.value = captured

\* C12, witness: the record of an item whose detail shows the placeholder
\* after whitespace holds a field that is present and empty.
C12_Witness ==
  /\ pc = "check"
  /\ items[1].info = << <<"FUNDER", "FIELD", " ", "-", "-">> >>
  /\ Len(all_projects) = 1
  /\ all_projects[1].field = [present |-> TRUE, value |-> <<>>]
  /\ all_projects[1].field # NoField

\* C13: a click after which no poll of the poll budget saw the first title
\* change is handed to the retry policy: retry_count is incremented and the
\* loop goes on, or, with retry_count at the ceiling, the loop ends as
\* failed.
C13_StaleIsFailure ==
  [][pc = "poll" /\ lastAdvance' = "stale"
       => \/ retry_count' = retry_count + 1 /\ pc' = "loop"
          \/ /\ retry_count = max_retries
             /\ retry_count' = retry_count
             /\ pc' = "done"
             /\ termReason' = "retry_click"]_vars

\* C14: at the head of every iteration page_num is 1 plus the number of
\* clicks after which the first title was seen to change.
C14_PageNumCountsChanges == pc = "loop" => page_num = 1 + changes

\* The button shows as disabled: the attribute is there or the class
\* contains "disabled".
ShowsDisabled(btn) ==
  btn.disabledAttr \/ \E i \in 1..Len(btn.cls) : btn.cls[i] = "disabled"

\* C15: when no selector finds a next button, or the button found is
\* disabled (attribute present or class containing "disabled"), the loop
\* ends there: no click is issued and page_num, retry_count and all_projects
\* are left as they were; a click is issued only on a button that is present
\* and not disabled.
C15_NoNextEndsLoop ==
  /\ [](pc = "click" => next_btn.present /\ ~ShowsDisabled(next_btn))
  /\ [](termReason = "no_next" => LoopEnded /\ ~next_btn.present)
  /\ [](termReason = "last_page"
          => LoopEnded /\ next_btn.present /\ ShowsDisabled(next_btn))
  /\ [][pc = "find_next" /\ pc' # "raised"
          => /\ (~next_btn'.present \/ ShowsDisabled(next_btn')) <=> pc' = "done"
             /\ pc' \in {"done", "click"}
             /\ page_num' = page_num
             /\ retry_count' = retry_count
             /\ all_projects' = all_projects]_vars
  /\ [][pc = "done" => pc' = "returned" /\ result' = all_projects]_vars

\* C15, witness: the run returned the records of two pages after it found
\* the next button disabled by its class alone.
C15_Witness ==
  /\ pc = "returned"
  /\ termReason = "last_page"
  /\ next_btn.present /\ ~next_btn.disabledAttr
  /\ page_num = 2
  /\ Len(result) >= 1

\* C16: when the scroll to the next button or its click fails at every
\* attempt while the list keeps rendering, the loop ends in the end.
C16_FailingAdvanceEnds == <>(~Running \/ pc = "done")

\* C17: a run ends on a render failure (the wait timed out or the query
\* found no item), on the first page as on later ones, only with the retry
\* budget exhausted.
C17_RenderFailureRetried ==
  termReason \in {"retry_render", "no_data"} => retry_count = max_retries

\* C18: a render wait that timed out with retries remaining is followed by
\* a reload of the page before the next render wait.
C18_TimeoutRetryReloads ==
  [][pc = "wait" /\ retry_count' = retry_count + 1 => pc' = "reload"]_vars

\* C19: all_projects is append-only and in extraction order: no step but
\* the extraction of an item changes it, and the extraction of an item leaves
\* it unchanged or appends the record of that item at its end, so that each
\* value of all_projects is a prefix of every later one; the loop returns it.
C19_AppendOnly ==
  /\ [][pc # "extract" => all_projects' = all_projects]_vars
  /\ [][pc = "extract"
          => \/ all_projects' = all_projects
             \/ /\ Len(all_projects') = Len(all_projects) + 1
                /\ SubSeq(all_projects', 1, Len(all_projects)) = all_projects
                /\ all_projects'[Len(all_projects')].title
                     = NormalizeTitle(items[idx].raw)]_vars
  /\ [](pc = "returned" /\ termReason # "no_data" => result = all_projects)

\* C19, witness: the records of two pages are returned in the order of
\* their extraction, after the render retries of the second page ran out.
C19_Witness ==
  /\ pc = "returned"
  /\ termReason = "retry_render"
  /\ page_num = 2
  /\ Len(result) = 3
  /\ result[1].title = <<"b">>
  /\ result[2].title = <<"a">>
  /\ result[3].title = <<"a", "FAV", "NL", "b">>

\* The titles of the records collected.
CollectedTitles == {all_projects[i].title : i \in 1..Len(all_projects)}

\* C20: between the extractions of two pages, and when the loop has ended,
\* the titles of the records of all_projects are the titles of seen_titles
\* but the empty one, one record each.
C20_SeenAgreesWithCollected ==
  pc \notin {"extract", "raised"}
    => /\ CollectedTitles = seen_titles \ {<<>>}
       /\ Len(all_projects) = Cardinality(seen_titles \ {<<>>})

\* C20, witness: at the head of the second iteration the empty title and
\* two others are marked seen and two records are collected.
C20_Witness ==
  /\ pc = "loop"
  /\ page_num = 2
  /\ lastAdvance = "changed"
  /\ <<>> \in seen_titles
  /\ Cardinality(seen_titles) = 3
  /\ Len(all_projects) = 2

====
